---- MODULE Spec2Model ----
(***************************************************************************)
(* Model of the audio-to-artwork pipeline: the AudioProcessor queue and    *)
(* worker (services/audio_processor.py), the status and result tables of   *)
(* NeonDatabase (services/db/neon.py), the polling loop of VeoClient       *)
(* (configs/veo_client.py) and the upload endpoint (main.py).              *)
(*                                                                         *)
(* One action is one resumption of a coroutine: it completes the call the  *)
(* coroutine is awaiting, with an outcome drawn from what the collaborator *)
(* can answer, and runs the code up to the next await.  The texts that     *)
(* flow through the pipeline (transcript, summary, title, prompts) are     *)
(* kept only as far as the control flow reads them.                        *)
(***************************************************************************)
EXTENDS Integers, Sequences, FiniteSets, TLC

\* ----------------------------------------------------------------- bounds
MaxJobs == 2
MaxStarts == 2
MaxFaults == 2
MaxCallFaults == 1
MaxLatency == 10
MaxText == 6
MaxOutputElements == 13
MaxOutputKeywords == 11
MaxBriefElements == 13
MaxCalls == 4
ShortTimeout == 25

\* ------------------------------------------------------ program constants
TimeoutSeconds == 90
PollInterval == 10
DefaultTimeoutSeconds == 120
DefaultPollInterval == 5
MinTranscript == 5
MinElements == 8
MaxElements == 12
MinKeywords == 5
MaxKeywords == 10
ListedElements == 5

Sessions == 1..MaxJobs
WorkerIds == 1..MaxStarts
Modes == {"image", "video", "both"}

VARIABLES
    queue,              \* AudioProcessor.queue: the tasks waiting, oldest first
    worker_task,        \* AudioProcessor.worker_task: 0 is None, else a worker id
    worker,             \* the worker tasks ever created: their state and job
    job,                \* per session: the locals of _process_task and its position
    cloudinary_service, \* module global: TRUE when the remote media service is set
    update_counters,    \* table update_counters: session -> count (0: no row)
    update_status,      \* table update_status: session -> rows in insertion order
    completed_results,  \* table completed_results: session -> result record
    uploaded,           \* number of sessions the upload endpoint has created
    faults,             \* number of collaborator calls that have failed so far
    dequeued,           \* history: the sessions in the order the workers took them
    wait,               \* one direct call of VeoClient.wait_for_video: arguments,
                        \* clock, polls issued, result
    direct              \* one direct call of a function of the program: its name,
                        \* its input and what it gave back

vars == <<queue, worker_task, worker, job, cloudinary_service, update_counters,
          update_status, completed_results, uploaded, faults, dequeued, wait, direct>>

\* the worker tasks created so far, and those whose loop is still running
Born == {w \in WorkerIds : worker[w].state # "unborn"}
Live == {w \in WorkerIds : worker[w].state \in {"waiting", "busy"}}

\* A collaborator call ends; `failed` says whether it ended in an error. The
\* model follows the runs with at most MaxFaults failed calls, none of them
\* while more than one worker loop is live.
Outcome(failed) ==
    /\ failed => faults < MaxFaults /\ Cardinality(Live) <= 1
    /\ faults' = IF failed THEN faults + 1 ELSE faults

None == "None"

\* ------------------------------------------------------------ NeonDatabase

\* The ways one update_status call can end: every request succeeds; a request
\* before the counter upsert raises; the insert after the counter upsert raises.
DbOutcomes == {"ok", "fail_before_counter", "fail_after_counter"}

\* count = 1, or the stored count + 1 when a counter row exists
NextCount(s) == IF update_counters[s] = 0 THEN 1 ELSE update_counters[s] + 1

\* The counter table after update_status(s, ...) ending with outcome o
CountersAfter(s, o) ==
    IF o = "fail_before_counter" THEN update_counters
    ELSE [update_counters EXCEPT ![s] = NextCount(s)]

\* The row update_status(s, status, info) inserts
StatusRow(s, status, info) ==
    [status |-> status, sequence_number |-> NextCount(s), additional_info |-> info]

\* The status table after update_status(s, status, info) ending with outcome o
RowsAfter(s, status, info, o) ==
    IF o = "ok"
    THEN [update_status EXCEPT ![s] = Append(@, StatusRow(s, status, info))]
    ELSE update_status

\* Insertion sort of rows by sequence_number (stable), as ORDER BY returns them
RECURSIVE InsertRow(_, _)
InsertRow(r, rows) ==
    IF rows = <<>> THEN <<r>>
    ELSE IF r.sequence_number < Head(rows).sequence_number THEN <<r>> \o rows
    ELSE <<Head(rows)>> \o InsertRow(r, Tail(rows))

RECURSIVE OrderBySequence(_)
OrderBySequence(rows) ==
    IF rows = <<>> THEN <<>>
    ELSE InsertRow(rows[Len(rows)], OrderBySequence(SubSeq(rows, 1, Len(rows) - 1)))

\* NeonDatabase.get_status_updates
get_status_updates(s) == OrderBySequence(update_status[s])

\* no row of completed_results for the session
NoResult ==
    [present |-> FALSE, generation_mode |-> None, status |-> None, keys |-> {},
     image_url |-> None, image_prompt |-> None,
     video_url |-> None, video_prompt |-> None]

\* NeonDatabase.get_session_results
get_session_results(s) == completed_results[s]

\* ------------------------------------------------------------- job records

\* additional_info of a status row; None marks a key the call does not pass
Info(image, video, error, stage) ==
    [image |-> image, video |-> video, image_error |-> None, error |-> error,
     stage |-> stage]

NoInfo == Info(None, None, None, None)

\* The record of a session no worker has taken yet: the locals of _process_task
\* and of the two branches, the position in them, and the history of the job
FreshJob ==
    [pc |-> "none", generation_mode |-> None, current_stage |-> None,
     transcript |-> None,
     image_url |-> None, image_prompt |-> None, image_base64 |-> None,
     video_url |-> None, video_prompt |-> None,
     revised_prompt |-> None, video_result |-> None,
     img |-> "off", vid |-> "off", elapsed |-> 0, operation |-> None,
     error |-> None,
     failed_in |-> None, reported |-> FALSE,
     last_update |-> None, last_ok |-> FALSE,
     prompt_calls |-> 0, called |-> {}]

\* _worker lines 90-94 and _process_task lines 116-131: the task is unpacked,
\* current_stage becomes "transcription" and update_status("transcribing") is awaited
BeginTask(t) ==
    [FreshJob EXCEPT !.pc = "update_transcribing",
                     !.generation_mode = t.generation_mode,
                     !.current_stage = "transcription"]

\* variant of QueueGet: the newest task
QueueGetNewest(q) == q[Len(q)]

\* asyncio.Queue.get: the oldest task, and the queue without it
QueueGet(q) == Head(q)

\* variant of QueueRest: the task taken stays in the queue
QueueRestKept(q) == q

QueueRest(q) == Tail(q)

\* The locals of the try block go out of use when control leaves it by an
\* exception or a cancellation; what is kept is what the handlers read
\* (current_stage, the error) and the history
Dropped(j) ==
    [FreshJob EXCEPT !.pc = j.pc, !.generation_mode = j.generation_mode,
                     !.current_stage = j.current_stage, !.error = j.error,
                     !.failed_in = j.failed_in, !.reported = j.reported,
                     !.last_update = j.last_update, !.last_ok = j.last_ok,
                     !.prompt_calls = j.prompt_calls, !.called = j.called]

\* history: the job has made one more call of _generate_image_prompt
PromptCalled(j) == [j EXCEPT !.prompt_calls = @ + 1]

\* history: the job has called the capability
Called(capability, j) == [j EXCEPT !.called = @ \cup {capability}]

\* An exception raised inside the try block of _process_task by the call `what`:
\* control goes to the handler of lines 281-299, which awaits update_status("failed")
Raised(j, what) ==
    [Dropped(j) EXCEPT !.pc = "update_failed",
                       !.error = what,
                       !.failed_in = what]

\* history: the last update_status call of this job, and whether it returned
Issued(j, status, o) == [j EXCEPT !.last_update = status, !.last_ok = (o = "ok")]

\* db.update_status(s, status, info) awaited inside the try block ends with
\* outcome o: on success the job goes on as okJob, otherwise the error is raised
WriteStatus(s, status, info, o, okJob) ==
    /\ Outcome(o # "ok")
    /\ update_counters' = CountersAfter(s, o)
    /\ update_status' = RowsAfter(s, status, info, o)
    /\ job' = [job EXCEPT ![s] =
                 Issued(IF o = "ok" THEN okJob ELSE Raised(job[s], "update_status"),
                        status, o)]

Busy(s) == \E w \in WorkerIds : worker[w].state = "busy" /\ worker[w].session = s

WorkerOf(s) == CHOOSE w \in WorkerIds : worker[w].state = "busy" /\ worker[w].session = s

At(s, pc) == Busy(s) /\ job[s].pc = pc

\* ----------------------------------------------------------------- Init

\* no direct call of wait_for_video has been made
NoWait ==
    [pc |-> "idle", timeout_seconds |-> 0, poll_interval |-> 0, clock |-> 0,
     polls |-> 0, operation |-> None, answer |-> None, result |-> None, late |-> FALSE,
     delayed |-> FALSE, poll_raised |-> FALSE, polled_after_error |-> FALSE]

\* AudioProcessor.__init__ and the empty tables, with `spent` of the fault
\* budget already used
\* no function has been called directly
NoCall == [fn |-> "idle"]

Constructed(spent) ==
    /\ queue = <<>>
    /\ worker_task = 0
    /\ worker = [w \in WorkerIds |-> [state |-> "unborn", session |-> 0]]
    /\ job = [s \in Sessions |-> FreshJob]
    /\ cloudinary_service \in BOOLEAN
    /\ update_counters = [s \in Sessions |-> 0]
    /\ update_status = [s \in Sessions |-> <<>>]
    /\ completed_results = [s \in Sessions |-> NoResult]
    /\ uploaded = 0
    /\ faults = spent
    /\ dequeued = <<>>
    /\ wait = NoWait
    /\ direct = NoCall

Init == Constructed(0)

\* ------------------------------------------------- upload, start and stop

\* main.upload_audio and AudioProcessor.process_audio: a new session id, one
\* task appended to the queue; no status row is written
Upload(mode) ==
    /\ uploaded < MaxJobs
    /\ uploaded' = uploaded + 1
    /\ queue' = Append(queue, [session_id |-> uploaded + 1, generation_mode |-> mode])
    /\ UNCHANGED <<worker_task, worker, job, cloudinary_service, wait, direct, update_counters,
                   update_status, completed_results, faults, dequeued>>

\* variant of Start: the new worker starts on an empty queue
StartEmptyQueue ==
    /\ Cardinality(Born) < MaxStarts
    /\ LET w == Cardinality(Born) + 1 IN
         /\ worker' = [worker EXCEPT ![w] = [state |-> "waiting", session |-> 0]]
         /\ worker_task' = w
    /\ queue' = <<>>
    /\ UNCHANGED <<job, cloudinary_service, wait, direct, update_counters, update_status,
                   completed_results, uploaded, faults, dequeued>>

\* AudioProcessor.start: a new worker task is created and worker_task set to it,
\* whatever worker_task held before
Start ==
    /\ Cardinality(Born) < MaxStarts
    /\ LET w == Cardinality(Born) + 1 IN
         /\ worker' = [worker EXCEPT ![w] = [state |-> "waiting", session |-> 0]]
         /\ worker_task' = w
    /\ UNCHANGED <<queue, job, cloudinary_service, wait, direct, update_counters, update_status,
                   completed_results, uploaded, faults, dequeued>>

\* How a worker task ends when it is cancelled at position pc of its job
\* ("queue.get": while it waits for a task). CancelledError raised at an await inside the try of
\* _worker (lines 89-98) is caught at line 100 and the loop is left: the task
\* returns. Raised at the await of the worker's own handler (line 104) it is
\* inside an except clause, no clause catches it, and the task ends cancelled.
CancelledEnd(pc) == IF pc = "worker_update_failed" THEN "cancelled" ELSE "exited"

\* stop lines 60-63: what `await self.worker_task` does to stop for a task that
\* ended in `state`: a task that returned gives its value, CancelledError is
\* caught, any other exception the task ended with is raised again
StopOutcome(state) == IF state = "crashed" THEN "raises" ELSE "returns"

\* variant of Stop: the cancellation is handled like an error of the job
StopAsFailure ==
    /\ worker_task # 0
    /\ worker[worker_task].state \in {"waiting", "busy"}
    /\ worker' = [worker EXCEPT ![worker_task] = [state |-> "exited", session |-> 0]]
    /\ job' = IF worker[worker_task].state = "busy"
              THEN [job EXCEPT ![worker[worker_task].session] =
                      [Dropped(@) EXCEPT !.pc = "abandoned", !.current_stage = None,
                                         !.error = None]]
              ELSE job
    /\ update_status' =
         IF worker[worker_task].state = "busy"
         THEN RowsAfter(worker[worker_task].session, "failed", NoInfo, "ok")
         ELSE update_status
    /\ UNCHANGED <<queue, worker_task, cloudinary_service, wait, direct, update_counters,
                   completed_results, uploaded, faults, dequeued>>

\* AudioProcessor.stop: the task worker_task names is cancelled and awaited.
\* CancelledError reaches the await the worker is suspended at; no handler of
\* _process_task catches it (they catch Exception), the job in flight is dropped.
Stop ==
    /\ worker_task # 0
    /\ worker[worker_task].state \in {"waiting", "busy"}
    /\ worker' = [worker EXCEPT ![worker_task] =
         [state |-> CancelledEnd(IF worker[worker_task].state = "busy"
                                 THEN job[worker[worker_task].session].pc
                                 ELSE "queue.get"),
          session |-> 0]]
    /\ job' = IF worker[worker_task].state = "busy"
              THEN [job EXCEPT ![worker[worker_task].session] =
                      [Dropped(@) EXCEPT !.pc = "abandoned", !.current_stage = None,
                                         !.error = None]]
              ELSE job
    /\ UNCHANGED <<queue, worker_task, cloudinary_service, wait, direct, update_counters,
                   update_status, completed_results, uploaded, faults, dequeued>>

\* main.lifespan line 73: the application calls start once, when it comes up
Startup ==
    /\ worker_task = 0
    /\ Start

\* main.lifespan line 80: the application calls stop when it goes down
Shutdown == Stop

\* ------------------------------------------------------------- the worker

\* _worker line 90: the worker w takes the next task and starts on it
TakeTask(w, jobs) ==
    LET t == QueueGet(queue) IN
    /\ worker' = [worker EXCEPT ![w] = [state |-> "busy", session |-> t.session_id]]
    /\ job' = [jobs EXCEPT ![t.session_id] = BeginTask(t)]
    /\ queue' = QueueRest(queue)
    /\ dequeued' = Append(dequeued, t.session_id)

\* _worker lines 87-90: back at the top of the loop after a job; queue.get() does
\* not suspend when a task is waiting
WorkerLoop(w, jobs) ==
    IF queue = <<>>
    THEN /\ worker' = [worker EXCEPT ![w] = [state |-> "waiting", session |-> 0]]
         /\ job' = jobs
         /\ UNCHANGED <<queue, dequeued>>
    ELSE TakeTask(w, jobs)

\* A worker suspended in queue.get() is woken by a put
WorkerGet(w) ==
    /\ worker[w].state = "waiting"
    /\ queue # <<>>
    /\ TakeTask(w, job)
    /\ UNCHANGED <<worker_task, cloudinary_service, wait, direct, update_counters, update_status,
                   completed_results, uploaded, faults>>

\* ---------------------------------------------- _process_task, stages 1-2

\* frame of a step that changes one job and the status tables only
JobFrame == UNCHANGED <<queue, worker_task, worker, cloudinary_service, wait, direct,
                        completed_results, uploaded, dequeued>>

\* frame of a step that changes one job only
CallFrame == UNCHANGED <<queue, worker_task, worker, cloudinary_service, wait, direct,
                         update_counters, update_status, completed_results,
                         uploaded, dequeued>>

\* line 131: update_status("transcribing") returns or raises
UpdateTranscribing(s, o) ==
    /\ At(s, "update_transcribing")
    /\ WriteStatus(s, "transcribing", NoInfo, o, [job[s] EXCEPT !.pc = "transcribe"])
    /\ JobFrame

\* what _transcribe can answer: an error, or a text that has fewer than 5
\* characters after trimming, or one that has not
TranscribeAnswers == {"fail", "short", "long"}

\* lines 133-141: _transcribe returns or raises; update_status("summarizing") is awaited
Transcribe(s, r) ==
    /\ At(s, "transcribe")
    /\ Outcome(r = "fail")
    /\ job' = [job EXCEPT ![s] =
                 IF r = "fail" THEN Raised(@, "transcribe")
                 ELSE [@ EXCEPT !.pc = "update_summarizing", !.transcript = r,
                                !.current_stage = "summarization"]]
    /\ CallFrame

\* variant of MediaStatus: the media stage reports the first status again
MediaStatusFirst(mode) == "transcribing"

\* the status update_status is called with when the media stage starts
MediaStatus(mode) ==
    CASE mode = "both" -> "generating_media"
      [] mode = "image" -> "generating_image"
      [] OTHER -> "generating_video"

\* lines 164-167: the payload of that call
MediaInfo(mode) ==
    IF mode = "both" THEN Info("in_progress", "in_progress", None, None) ELSE NoInfo

\* variant of StartMedia: the media stage starts without its status update
StartMediaUnannounced(j) ==
    [j EXCEPT !.pc = "image_prompt", !.transcript = None,
              !.current_stage = "media_generation"]

\* lines 148-167, 218, 225: the media stage starts
StartMedia(j) ==
    [j EXCEPT !.pc = "update_media", !.transcript = None,
              !.current_stage = "media_generation"]

\* _summarize lines 339-341: no call for a transcript under 5 characters
SummarizeSkipped(transcript) == transcript = "short"

\* line 141: update_status("summarizing") returns or raises; _summarize then
\* either returns the placeholder at once or awaits the summarization call
UpdateSummarizing(s, o) ==
    /\ At(s, "update_summarizing")
    /\ WriteStatus(s, "summarizing", NoInfo, o,
                   IF SummarizeSkipped(job[s].transcript)
                   THEN StartMedia(job[s])
                   ELSE [job[s] EXCEPT !.pc = "summarize"])
    /\ JobFrame

\* lines 343-349, 388: the summarization call returns or raises
Summarize(s, ok) ==
    /\ At(s, "summarize")
    /\ Outcome(~ok)
    /\ job' = [job EXCEPT ![s] = IF ok THEN StartMedia(@) ELSE Raised(@, "summarize")]
    /\ CallFrame

\* lines 164, 218, 225: the first status of the media stage is written; every
\* mode then awaits _generate_image_prompt (lines 171, 400, 227)
UpdateMedia(s, o) ==
    /\ At(s, "update_media")
    /\ WriteStatus(s, MediaStatus(job[s].generation_mode),
                   MediaInfo(job[s].generation_mode), o,
                   [job[s] EXCEPT !.pc = "image_prompt"])
    /\ JobFrame

\* ------------------------------------------------- stage 3: media branches

\* variant of StartTitle: the title stage starts without its status update
StartTitleUnannounced(j) ==
    [j EXCEPT !.pc = "title", !.current_stage = "title_generation",
              !.img = "off", !.vid = "off"]

\* lines 232-235: the media stage is over, update_status("generating_title") is awaited
StartTitle(j) ==
    [j EXCEPT !.pc = "update_title", !.current_stage = "title_generation",
              !.img = "off", !.vid = "off"]

\* variant of Joined: in both mode the join does not wait for the second branch
JoinedOnFirst(j) ==
    CASE j.generation_mode = "both" /\ (j.img \in {"done", "failed"} \/ j.vid = "done")
           -> [j EXCEPT !.pc = "update_media_result"]
      [] j.generation_mode = "image" /\ j.img = "done" -> StartTitle(j)
      [] j.generation_mode = "video" /\ j.vid = "done" -> StartTitle(j)
      [] OTHER -> j

\* The job after a branch has ended. In both mode asyncio.gather(...,
\* return_exceptions=True) returns when both branches have ended, and the image
\* result is reported with update_status (lines 181-196); in the other modes the
\* one branch is awaited directly (lines 219, 228).
Joined(j) ==
    CASE j.generation_mode = "both" /\ j.img \in {"done", "failed"} /\ j.vid = "done"
           -> [j EXCEPT !.pc = "update_media_result"]
      [] j.generation_mode = "image" /\ j.img = "done" -> StartTitle(j)
      [] j.generation_mode = "video" /\ j.vid = "done" -> StartTitle(j)
      [] OTHER -> j

\* variant of GenerateImage: an image is rendered in every mode
GenerateImageAlways(mode) == TRUE

\* line 159: the modes that render an image; line 160: those that make a video
GenerateImage(mode) == mode \in {"image", "both"}
GenerateVideo(mode) == mode \in {"video", "both"}

\* lines 171-177, 219 -> 400-402, 227-228: _generate_image_prompt returns or
\* raises; the raise is outside every branch, in all three modes. On return the
\* branches of the mode start: images.generate and generate_video_prompt are awaited.
ImagePrompt(s, ok) ==
    /\ At(s, "image_prompt")
    /\ Outcome(~ok)
    /\ job' = [job EXCEPT ![s] = PromptCalled(
         IF ~ok THEN Raised(@, "image_prompt")
         ELSE [@ EXCEPT !.pc = "media", !.image_prompt = "prompt",
                        !.img = IF GenerateImage(job[s].generation_mode)
                                THEN "render" ELSE "off",
                        !.vid = IF GenerateVideo(job[s].generation_mode)
                                THEN "brief" ELSE "off"])]
    /\ CallFrame

\* what images.generate can answer: an error (or no image data), or an image
\* whose revised_prompt is a text or is None
RenderAnswers == {"fail", "revised", None}

\* _generate_image_from_prompt line 483 and _process_task lines 192, 219: the
\* image branch ends with image_url = url; image mode takes the returned prompt,
\* both mode keeps the prompt it generated
ImageStored(j, url) ==
    [j EXCEPT !.img = "done", !.image_url = url,
              !.image_prompt = IF j.generation_mode = "image" THEN j.revised_prompt ELSE @,
              !.revised_prompt = None]

\* lines 415-481: images.generate returns or raises. With the remote service set
\* the upload is awaited, otherwise the file is written locally.
ImageRender(s, r) ==
    /\ Busy(s) /\ job[s].pc = "media" /\ job[s].img = "render"
    /\ Outcome(r = "fail")
    /\ job' = [job EXCEPT ![s] = Called("images.generate",
         IF r = "fail"
         THEN IF job[s].generation_mode = "both"
              THEN Joined([@ EXCEPT !.img = "failed"])
              ELSE Raised(@, "images.generate")
         ELSE LET j1 == [@ EXCEPT !.image_base64 = "base64",
                                  !.revised_prompt = IF job[s].generation_mode = "image"
                                                     THEN r ELSE None]
              IN IF cloudinary_service
                 THEN [j1 EXCEPT !.img = "upload"]
                 ELSE Joined(ImageStored(j1, "local")))]
    /\ CallFrame

\* variant of UploadedUrl: a failed upload leaves no URL
UploadedUrlNoFallback(ok) == IF ok THEN "cloud" ELSE None

\* lines 451-473 and 674-696: the URL once the remote upload has ended: the
\* service's URL, or, the upload having raised, the local path the bytes were
\* written to (generated_images/<session>.png, generated_videos/<session>.mp4)
UploadedUrl(ok) == IF ok THEN "cloud" ELSE "local"

\* lines 453-473: upload_image returns the remote URL, or raises and the bytes
\* are written to the local path
ImageUpload(s, ok) ==
    /\ Busy(s) /\ job[s].pc = "media" /\ job[s].img = "upload"
    /\ Outcome(~ok)
    /\ job' = [job EXCEPT ![s] = Joined(ImageStored(@, UploadedUrl(ok)))]
    /\ CallFrame

\* _generate_video lines 722-725: an exception anywhere in the body is caught
\* and (None, None) is returned
VideoFailed(j) ==
    [j EXCEPT !.vid = "done", !.video_url = None, !.video_prompt = None,
              !.video_result = "raised", !.elapsed = 0]

\* _generate_video line 720: (video_url, video_prompt) is returned
VideoReturned(j, result, url) ==
    [j EXCEPT !.vid = "done", !.video_url = url, !.video_result = result,
              !.elapsed = 0]

\* lines 601-624: the clients are set up and generate_video_prompt returns the
\* brief, or one of them raises
VideoBrief(s, ok) ==
    /\ Busy(s) /\ job[s].pc = "media" /\ job[s].vid = "brief"
    /\ Outcome(~ok)
    /\ job' = [job EXCEPT ![s] =
         IF ok THEN [@ EXCEPT !.vid = "submit", !.video_prompt = "brief"]
         ELSE Joined(VideoFailed(@))]
    /\ CallFrame

\* lines 634-649, wait_for_video lines 209-213: generate_video returns the
\* operation or raises; the loop is entered (0 < timeout) and the first poll awaited
VideoSubmit(s, ok) ==
    /\ Busy(s) /\ job[s].pc = "media" /\ job[s].vid = "submit"
    /\ Outcome(~ok)
    /\ job' = [job EXCEPT ![s] = Called("generate_video",
         IF ok THEN [@ EXCEPT !.vid = "poll", !.elapsed = 0, !.operation = "running"]
         ELSE Joined(VideoFailed(@)))]
    /\ CallFrame

\* what one poll of a running operation can answer
PollAnswers == {"running", "raise", "done_error", "done_empty", "done_uri",
                "done_b64", "done_both", "done_no_location"}

\* an operation that has ended keeps its answer; the request itself can still fail
PollAnswersOf(operation) ==
    CASE operation = "error" -> {"raise", "done_error"}
      [] operation = "no_location" -> {"raise", "done_no_location"}
      [] OTHER -> PollAnswers

\* the answers that count as a failed call: the request raising, and the
\* operation first reported as ended without a usable video
PollFault(operation, a) ==
    \/ a = "raise"
    \/ operation = "running" /\ a \in {"done_error", "done_empty", "done_no_location"}

\* variant of PollReturns: a poll that raises ends the call as well
PollReturnsOnRaise(a) == a \notin {"running", "done_error", "done_no_location"}

\* wait_for_video lines 215-251: TRUE when the poll's answer makes it return.
\* done with an error raises inside the inner try, whose handler (line 248)
\* logs and goes on; a first video with neither key falls through to the sleep.
PollReturns(a) == a \in {"done_empty", "done_uri", "done_b64", "done_both"}

\* wait_for_video lines 229-243: the value returned for such an answer
WaitResult(a) ==
    CASE a \in {"done_uri", "done_both"} -> "completed_uri"
      [] a = "done_b64" -> "completed_b64"
      [] OTHER -> "no_status"

\* variant of VideoUrlOf: a result without a video gives no URL
VideoUrlOfNoPending(result) ==
    CASE result = "completed_uri" -> "local"
      [] result = "completed_b64" -> "local"
      [] OTHER -> None

\* _generate_video lines 653-716: the video_url for a result of wait_for_video
\* that needs no upload
VideoUrlOf(result) ==
    CASE result = "completed_uri" -> "local"
      [] result = "completed_b64" -> "local"
      [] OTHER -> "pending"

\* _generate_video lines 653-713: the file the function has written on the local
\* disk when it returns video_url for a result of wait_for_video
WrittenFile(result, video_url) ==
    CASE result = "completed_uri" -> "generated_videos/<session>_gcs.txt"
      [] result = "completed_b64" /\ video_url = "local" -> "generated_videos/<session>.mp4"
      [] result = "timeout" -> "generated_videos/<session>_operation.txt"
      [] OTHER -> None

\* the operation as the provider holds it after answering a
OperationAfter(operation, a) ==
    CASE a = "done_error" -> "error"
      [] a = "done_no_location" -> "no_location"
      [] a \in {"done_empty", "done_uri", "done_b64", "done_both"} -> "done"
      [] OTHER -> operation

\* variant of LoopContinues: the loop goes on at the timeout itself
LoopContinuesAtTimeout(elapsed, timeout_seconds) == elapsed <= timeout_seconds

\* wait_for_video line 211: the loop condition
LoopContinues(elapsed, timeout_seconds) == elapsed < timeout_seconds

\* wait_for_video lines 211-262: one turn of the loop: the poll is answered and
\* either makes wait_for_video return, or the loop sleeps poll_interval and polls
\* again while the elapsed time is under the timeout, returning status timeout
\* otherwise
VideoPoll(s, a) ==
    /\ Busy(s) /\ job[s].pc = "media" /\ job[s].vid = "poll"
    /\ a \in PollAnswersOf(job[s].operation)
    /\ Outcome(PollFault(job[s].operation, a))
    /\ job' = [job EXCEPT ![s] = Called("get_operation_status",
         LET op == OperationAfter(job[s].operation, a)
             e == job[s].elapsed + PollInterval
         IN IF PollReturns(a)
            THEN IF WaitResult(a) = "completed_b64" /\ cloudinary_service
                 THEN [@ EXCEPT !.vid = "upload", !.video_result = WaitResult(a),
                                !.elapsed = 0, !.operation = op]
                 ELSE Joined(VideoReturned([@ EXCEPT !.operation = op], WaitResult(a),
                                           VideoUrlOf(WaitResult(a))))
            ELSE IF LoopContinues(e, TimeoutSeconds)
                 THEN [@ EXCEPT !.elapsed = e, !.operation = op]
                 ELSE Joined(VideoReturned([@ EXCEPT !.operation = op], "timeout",
                                           VideoUrlOf("timeout"))))]
    /\ CallFrame

\* lines 676-696: upload_video returns the remote URL, or raises and the bytes
\* are written to the local path
VideoUpload(s, ok) ==
    /\ Busy(s) /\ job[s].pc = "media" /\ job[s].vid = "upload"
    /\ Outcome(~ok)
    /\ job' = [job EXCEPT ![s] =
         Joined(VideoReturned(@, job[s].video_result, UploadedUrl(ok)))]
    /\ CallFrame

\* lines 184-196: the payload reporting the image branch's result in both mode
MediaResultInfo(j) ==
    IF j.img = "failed"
    THEN [Info("failed", "in_progress", None, None) EXCEPT !.image_error = "images.generate"]
    ELSE Info("completed", "in_progress", None, None)

\* lines 186, 193, 199-207: in both mode the image result is written;
\* results[1] is never an exception, so the video result is unpacked
UpdateMediaResult(s, o) ==
    /\ At(s, "update_media_result")
    /\ WriteStatus(s, "generating_media", MediaResultInfo(job[s]), o, StartTitle(job[s]))
    /\ JobFrame

\* ------------------------------------------------------- stages 5 and 6

\* variant of TitleCall: the call is chosen by the mode
TitleCallByMode(j) == IF GenerateImage(j.generation_mode) THEN "vision" ELSE "text"

\* _generate_title lines 503-540: the vision call when image bytes are at
\* hand, the text call otherwise
TitleCall(j) == IF j.image_base64 # None THEN "vision" ELSE "text"

\* line 241 and _generate_title line 530: the input of the text call: the summary,
\* and `video_prompt or image_prompt` as the visual concept when there is one
TitleInput(j) ==
    LET visual_prompt == IF j.video_prompt # None THEN j.video_prompt ELSE j.image_prompt
    IN IF visual_prompt # None THEN <<"summary", visual_prompt>> ELSE <<"summary">>

\* line 235: update_status("generating_title") returns or raises; _generate_title is awaited
UpdateTitle(s, o) ==
    /\ At(s, "update_title")
    /\ WriteStatus(s, "generating_title", NoInfo, o, [job[s] EXCEPT !.pc = "title"])
    /\ JobFrame

\* lines 238-250: _generate_title returns or raises; update_status("storing") is awaited
Title(s, ok) ==
    /\ At(s, "title")
    /\ Outcome(~ok)
    /\ job' = [job EXCEPT ![s] =
         IF ok THEN [@ EXCEPT !.pc = "update_storing", !.current_stage = "storing_results"]
         ELSE Raised(@, "title_" \o TitleCall(job[s]))]
    /\ CallFrame

\* variant of ResultKeys: the media keys are stored whatever was generated
ResultKeysAlways(j) ==
    {"transcript", "summary", "title", "generation_mode", "status", "session_id",
     "created_at", "image_url", "image_prompt", "video_url", "video_prompt"}

\* lines 252-266 and notify_user lines 111-113: the keys of the stored result
ResultKeys(j) ==
    {"transcript", "summary", "title", "generation_mode", "status", "session_id",
     "created_at"}
      \cup (IF j.image_url # None THEN {"image_url", "image_prompt"} ELSE {})
      \cup (IF j.video_url # None THEN {"video_url", "video_prompt"} ELSE {})

\* lines 252-266: result_data as notify_user stores it
ResultData(j) ==
    [present |-> TRUE, generation_mode |-> j.generation_mode, status |-> "completed",
     keys |-> ResultKeys(j),
     image_url |-> j.image_url,
     image_prompt |-> IF j.image_url # None THEN j.image_prompt ELSE None,
     video_url |-> j.video_url,
     video_prompt |-> IF j.video_url # None THEN j.video_prompt ELSE None]

\* line 250: update_status("storing") returns or raises; notify_user is awaited
UpdateStoring(s, o) ==
    /\ At(s, "update_storing")
    /\ WriteStatus(s, "storing", NoInfo, o, [job[s] EXCEPT !.pc = "notify_user"])
    /\ JobFrame

\* variant of NotifyUser: the call returns without the result being stored
NotifyUserLost(s, ok) ==
    /\ At(s, "notify_user")
    /\ Outcome(~ok)
    /\ job' = [job EXCEPT ![s] =
         IF ok THEN [@ EXCEPT !.pc = "update_completed"] ELSE Raised(@, "notify_user")]
    /\ UNCHANGED <<queue, worker_task, worker, cloudinary_service, wait, direct, update_counters,
                   update_status, completed_results, uploaded, dequeued>>

\* lines 268-271: notify_user upserts the result or raises;
\* update_status("completed") is awaited
NotifyUser(s, ok) ==
    /\ At(s, "notify_user")
    /\ Outcome(~ok)
    /\ completed_results' = IF ok THEN [completed_results EXCEPT ![s] = ResultData(job[s])]
                            ELSE completed_results
    /\ job' = [job EXCEPT ![s] =
         IF ok THEN [@ EXCEPT !.pc = "update_completed"] ELSE Raised(@, "notify_user")]
    /\ UNCHANGED <<queue, worker_task, worker, cloudinary_service, wait, direct, update_counters,
                   update_status, uploaded, dequeued>>

\* the job whose _process_task has returned
Returned(j) == [j EXCEPT !.pc = "returned", !.current_stage = None]

\* line 271 and _worker lines 87-98: update_status("completed") returns, and
\* _process_task returns to the worker's loop; or it raises
UpdateCompleted(s, o) ==
    /\ At(s, "update_completed")
    /\ Outcome(o # "ok")
    /\ update_counters' = CountersAfter(s, o)
    /\ update_status' = RowsAfter(s, "completed", NoInfo, o)
    /\ IF o = "ok"
       THEN WorkerLoop(WorkerOf(s),
                       [job EXCEPT ![s] = Issued(Returned(@), "completed", o)])
       ELSE /\ job' = [job EXCEPT ![s] =
                         Issued(Raised(@, "update_status"), "completed", o)]
            /\ UNCHANGED <<queue, worker, dequeued>>
    /\ UNCHANGED <<worker_task, cloudinary_service, wait, direct, completed_results, uploaded>>

\* ------------------------------------------------------ the two handlers

\* variant of FailedInfo: the payload without the stage
FailedInfoNoStage(j) == Info(None, None, j.error, None)

\* lines 295-298: the payload of the handler's update_status("failed")
FailedInfo(j) == Info(None, None, j.error, j.current_stage)

\* lines 281-299: the handler's update_status("failed") returns and the error
\* is raised again, or it raises itself; either way an exception reaches the
\* handler of _worker (lines 102-104), which awaits update_status("failed")
UpdateFailed(s, o) ==
    /\ At(s, "update_failed")
    /\ Outcome(o # "ok")
    /\ update_counters' = CountersAfter(s, o)
    /\ update_status' = RowsAfter(s, "failed", FailedInfo(job[s]), o)
    /\ job' = [job EXCEPT ![s] =
                 Issued([@ EXCEPT !.pc = "worker_update_failed",
                                  !.reported = (o = "ok"),
                                  !.error = IF o = "ok" THEN @ ELSE "update_status"],
                        "failed", o)]
    /\ JobFrame

\* _worker line 104: the payload of the worker's update_status("failed")
WorkerFailedInfo(j) == Info(None, None, j.error, None)

\* the job whose exception the worker has handled
Handled(j) == [j EXCEPT !.pc = "raised", !.error = None]

\* _worker lines 102-104: the worker's update_status("failed") returns and the
\* loop goes on, or it raises and the exception ends the worker task
WorkerUpdateFailed(s, o) ==
    /\ At(s, "worker_update_failed")
    /\ Outcome(o # "ok")
    /\ update_counters' = CountersAfter(s, o)
    /\ update_status' = RowsAfter(s, "failed", WorkerFailedInfo(job[s]), o)
    /\ IF o = "ok"
       THEN WorkerLoop(WorkerOf(s), [job EXCEPT ![s] = Issued(Handled(@), "failed", o)])
       ELSE /\ job' = [job EXCEPT ![s] = Issued(Handled(@), "failed", o)]
            /\ worker' = [worker EXCEPT ![WorkerOf(s)] =
                            [state |-> "crashed", session |-> 0]]
            /\ UNCHANGED <<queue, dequeued>>
    /\ UNCHANGED <<worker_task, cloudinary_service, wait, direct, completed_results, uploaded>>

\* ------------------------------------- wait_for_video called on its own

\* the arguments and the time one poll takes that are followed
WaitTimeouts == {0, ShortTimeout, TimeoutSeconds, DefaultTimeoutSeconds}
WaitIntervals == {PollInterval, DefaultPollInterval}
PollLatencies == {0, MaxLatency}

\* wait_for_video lines 208-213: the call starts its clock; with the loop
\* condition true the first poll is awaited, otherwise the timeout result is
\* returned at once
WaitCall(t, p) ==
    /\ wait.pc = "idle"
    /\ wait' = IF LoopContinues(0, t)
               THEN [NoWait EXCEPT !.pc = "polling", !.timeout_seconds = t,
                                   !.poll_interval = p, !.polls = 1,
                                   !.operation = "running", !.late = (0 >= t)]
               ELSE [NoWait EXCEPT !.pc = "returned", !.timeout_seconds = t,
                                   !.poll_interval = p, !.result = "timeout"]
    /\ UNCHANGED <<queue, worker_task, worker, job, cloudinary_service, update_counters,
                   update_status, completed_results, uploaded, faults, dequeued, direct>>

\* wait_for_video lines 211-262: the poll in flight is answered with a after d
\* seconds. An answer that makes the loop return ends the call; otherwise the
\* loop sleeps poll_interval and, the condition still true, starts the next
\* poll, or returns the timeout result. `late` records a poll started with the
\* elapsed time at or past the timeout.
WaitPoll(a, d) ==
    /\ wait.pc = "polling"
    /\ a \in PollAnswersOf(wait.operation)
    /\ LET answered == [wait EXCEPT !.operation = OperationAfter(wait.operation, a),
                                    !.answer = a,
                                    !.clock = wait.clock + d,
                                    !.delayed = @ \/ d > 0,
                                    !.poll_raised = @ \/ a = "raise",
                                    !.polled_after_error = @ \/ wait.operation = "error"]
           slept == answered.clock + wait.poll_interval
       IN wait' = IF PollReturns(a)
                  THEN [answered EXCEPT !.pc = "returned", !.result = WaitResult(a)]
                  ELSE IF LoopContinues(slept, wait.timeout_seconds)
                       THEN [answered EXCEPT !.clock = slept, !.polls = @ + 1,
                                             !.late = @ \/ slept >= wait.timeout_seconds]
                       ELSE [answered EXCEPT !.pc = "returned", !.clock = slept,
                                             !.result = "timeout"]
    /\ UNCHANGED <<queue, worker_task, worker, job, cloudinary_service, update_counters,
                   update_status, completed_results, uploaded, faults, dequeued, direct>>

\* ------------------------------------------------- functions called directly

\* the characters of a text: whitespace and anything else
Chars == {" ", "a"}

\* the texts of up to MaxText characters
Texts == UNION {[1..n -> Chars] : n \in 0..MaxText}

\* str.strip(): the text without its leading and trailing whitespace
RECURSIVE LStrip(_)
LStrip(text) ==
    IF text = <<>> \/ Head(text) # " " THEN text ELSE LStrip(Tail(text))

RECURSIVE RStrip(_)
RStrip(text) ==
    IF text = <<>> \/ text[Len(text)] # " " THEN text
    ELSE RStrip(SubSeq(text, 1, Len(text) - 1))

Strip(text) == RStrip(LStrip(text))

\* _summarize line 341: the text returned for a transcript that is too short
Placeholder == "Audio content was too brief or unclear to summarize."

\* variant of TooBrief: the length is taken without trimming
TooBriefUntrimmed(transcript) == transcript = <<>> \/ Len(transcript) < MinTranscript

\* _summarize line 339: `not transcript or len(transcript.strip()) < 5`
TooBrief(transcript) == transcript = <<>> \/ Len(Strip(transcript)) < MinTranscript

\* what responses.create can give _summarize: the summary, or an error
SummaryAnswers == {"output_text", "raise"}

\* _summarize lines 334-392 called with a transcript: the placeholder at once,
\* or the summarization request and its answer r (an error is raised again)
SummarizeCall(transcript, r) ==
    /\ direct.fn = "idle"
    /\ direct' = [fn |-> "_summarize", transcript |-> transcript,
                  requested |-> ~TooBrief(transcript),
                  output |-> IF TooBrief(transcript) THEN Placeholder ELSE r]
    /\ UNCHANGED <<queue, worker_task, worker, job, cloudinary_service, update_counters,
                   update_status, completed_results, uploaded, faults, dequeued, wait>>

\* the list of n items a model output carries, each item named by its position
Items(n) == [i \in 1..n |-> i]

\* variant of ValidBrief: only the elements are counted
ValidBriefElementsOnly(elements, keywords) ==
    Len(elements) \in MinElements..MaxElements

\* VideoPrompt lines 34-38 and 49-53: the length constraints of the two lists,
\* enforced when the completion is parsed into the response_format
ValidBrief(elements, keywords) ==
    /\ Len(elements) \in MinElements..MaxElements
    /\ Len(keywords) \in MinKeywords..MaxKeywords

\* nothing is returned
NoBrief == [elements |-> <<>>, keywords |-> <<>>]

\* generate_video_prompt lines 124-153 for a model output with ne elements and
\* nk keywords: the parsed brief is returned as model_dump() gives it, or the
\* validation error is logged and raised again
BriefCall(ne, nk) ==
    /\ direct.fn = "idle"
    /\ direct' = [fn |-> "generate_video_prompt",
                  elements |-> Items(ne), keywords |-> Items(nk),
                  raised |-> ~ValidBrief(Items(ne), Items(nk)),
                  returned |-> IF ValidBrief(Items(ne), Items(nk))
                               THEN [elements |-> Items(ne), keywords |-> Items(nk)]
                               ELSE NoBrief]
    /\ UNCHANGED <<queue, worker_task, worker, job, cloudinary_service, update_counters,
                   update_status, completed_results, uploaded, faults, dequeued, wait>>

\* str.lower() on the letters of the texts used here
LowerChar(c) ==
    CASE c = "N" -> "n"
      [] c = "O" -> "o"
      [] c = "E" -> "e"
      [] OTHER -> c

Lower(text) == [i \in DOMAIN text |-> LowerChar(text[i])]

\* the values of the `text` field: 'none' in every mix of cases, and texts that
\* are not 'none'
NoneSpelled(upper) ==
    [i \in 1..4 |-> IF i \in upper THEN <<"N", "O", "N", "E">>[i]
                     ELSE <<"n", "o", "n", "e">>[i]]

TextValues ==
    {NoneSpelled(upper) : upper \in SUBSET (1..4)}
        \cup {<<>>, <<"n", "o", "n">>, <<"n", "o", "n", "e", " ">>, <<"N", "O", "P", "E">>}

\* the name of the i-th element or keyword of a brief
Named(prefix, n) == [i \in 1..n |-> prefix \o ToString(i)]

\* the structured prompts format_for_veo is called with
Briefs ==
    [description : {"description"}, style : {"style"}, camera : {"camera"},
     lighting : {"lighting"}, environment : {"", "environment"},
     elements : {Named("e", n) : n \in 0..MaxBriefElements},
     motion : {"motion"}, ending : {"ending"}, text : TextValues,
     keywords : {Named("k", n) : n \in {0, 2}}]

\* ", ".join(items), as the sequence of its pieces
RECURSIVE JoinComma(_)
JoinComma(items) ==
    IF Len(items) = 0 THEN <<>>
    ELSE IF Len(items) = 1 THEN <<items[1]>>
    ELSE <<items[1], ", ">> \o JoinComma(Tail(items))

\* items[:n]
FirstOf(items, n) == SubSeq(items, 1, IF Len(items) < n THEN Len(items) ELSE n)

\* variant of ElementsClause: the limit of five is not applied
ElementsClauseAll(elements) ==
    <<"The scene includes ">> \o JoinComma(elements) \o <<".">>

\* format_for_veo lines 185-188: the first five elements, and the number of
\* the others when there are more
ElementsClause(elements) ==
    <<"The scene includes ">> \o JoinComma(FirstOf(elements, ListedElements))
        \o (IF Len(elements) > ListedElements
            THEN <<", and ", ToString(Len(elements) - ListedElements),
                   " more detailed elements">>
            ELSE <<>>)
        \o <<".">>

\* variant of NoTextClause: the text is compared as it is written
NoTextClauseExact(text) ==
    IF text = <<"n", "o", "n", "e">> THEN << <<"No text overlays.">> >> ELSE <<>>

\* format_for_veo lines 201-202
NoTextClause(text) ==
    IF Lower(text) = <<"n", "o", "n", "e">> THEN << <<"No text overlays.">> >> ELSE <<>>

\* format_for_veo lines 165-204: prompt_parts, each part as the sequence of
\* its pieces; the result is the parts joined by one space
format_for_veo(structured_prompt) ==
    << <<structured_prompt.description>>,
       <<"Visual style: ", structured_prompt.style, ".">>,
       <<"Camera: ", structured_prompt.camera, ".">>,
       <<"Lighting: ", structured_prompt.lighting, ".">> >>
    \o (IF structured_prompt.environment # ""
        THEN << <<"Setting: ", structured_prompt.environment, ".">> >> ELSE <<>>)
    \o (IF structured_prompt.elements # <<>>
        THEN <<ElementsClause(structured_prompt.elements)>> ELSE <<>>)
    \o << <<"Motion: ", structured_prompt.motion, ".">>,
          <<"The video ends with ", structured_prompt.ending, ".">> >>
    \o (IF structured_prompt.keywords # <<>>
        THEN << <<"Keywords: ">> \o JoinComma(structured_prompt.keywords) \o <<".">> >>
        ELSE <<>>)
    \o NoTextClause(structured_prompt.text)

\* format_for_veo called with a structured prompt
FormatCall(structured_prompt) ==
    /\ direct.fn = "idle"
    /\ direct' = [fn |-> "format_for_veo", structured_prompt |-> structured_prompt,
                  returned |-> format_for_veo(structured_prompt)]
    /\ UNCHANGED <<queue, worker_task, worker, job, cloudinary_service, update_counters,
                   update_status, completed_results, uploaded, faults, dequeued, wait>>

\* ------------------------------------------------- the video client's credential

\* VeoClient.__init__ and _init_credentials: the client holds a credential,
\* which may or may not hold a valid token yet; no request has been sent
VeoClientInit(valid) ==
    /\ direct.fn = "idle"
    /\ direct' = [fn |-> "VeoClient", valid |-> valid, token |-> 0, raised |-> FALSE,
                  sent |-> <<>>]
    /\ UNCHANGED <<queue, worker_task, worker, job, cloudinary_service, update_counters,
                   update_status, completed_results, uploaded, faults, dequeued, wait>>

\* time passes and the token of the credential expires
TokenExpires ==
    /\ direct.fn = "VeoClient" /\ direct.valid
    /\ direct' = [direct EXCEPT !.valid = FALSE]
    /\ UNCHANGED <<queue, worker_task, worker, job, cloudinary_service, update_counters,
                   update_status, completed_results, uploaded, faults, dequeued, wait>>

\* variant of get_auth_token: the token is returned as it is
get_auth_token_unchecked(client, refresh_ok) == [client EXCEPT !.raised = FALSE]

\* VeoClient._get_auth_token lines 69-75: a credential that is not valid is
\* refreshed, which gives it a new valid token or raises; the token is returned
get_auth_token(client, refresh_ok) ==
    IF client.valid THEN [client EXCEPT !.raised = FALSE]
    ELSE IF refresh_ok
         THEN [client EXCEPT !.valid = TRUE, !.token = @ + 1, !.raised = FALSE]
         ELSE [client EXCEPT !.raised = TRUE]

\* the requests that carry the token
AuthenticatedCalls == {"generate_video", "get_operation_status"}

\* generate_video lines 130-142 and get_operation_status lines 175-181: the
\* headers are built with _get_auth_token() and the request is posted with
\* them; when the refresh raises nothing is posted
AuthenticatedCall(request, refresh_ok) ==
    /\ direct.fn = "VeoClient" /\ Len(direct.sent) < MaxCalls
    /\ LET client == get_auth_token(direct, refresh_ok)
       IN direct' = IF client.raised THEN client
                    ELSE [client EXCEPT !.sent =
                            Append(@, [request |-> request, token |-> client.token,
                                       found_valid |-> direct.valid,
                                       valid |-> client.valid])]
    /\ UNCHANGED <<queue, worker_task, worker, job, cloudinary_service, update_counters,
                   update_status, completed_results, uploaded, faults, dequeued, wait>>

\* ------------------------------------------------------------------ Next

\* one step of the job a worker is running
JobStep(s) ==
    \/ \E o \in DbOutcomes :
         \/ UpdateTranscribing(s, o)
         \/ UpdateSummarizing(s, o)
         \/ UpdateMedia(s, o)
         \/ UpdateMediaResult(s, o)
         \/ UpdateTitle(s, o)
         \/ UpdateStoring(s, o)
         \/ UpdateCompleted(s, o)
         \/ UpdateFailed(s, o)
         \/ WorkerUpdateFailed(s, o)
    \/ \E r \in TranscribeAnswers : Transcribe(s, r)
    \/ \E r \in RenderAnswers : ImageRender(s, r)
    \/ \E a \in PollAnswers : VideoPoll(s, a)
    \/ \E ok \in BOOLEAN :
         \/ Summarize(s, ok)
         \/ ImagePrompt(s, ok)
         \/ ImageUpload(s, ok)
         \/ VideoBrief(s, ok)
         \/ VideoSubmit(s, ok)
         \/ VideoUpload(s, ok)
         \/ Title(s, ok)
         \/ NotifyUser(s, ok)

\* The service as main.py runs it: start once at startup, uploads at any time,
\* stop at shutdown
Next ==
    \/ \E mode \in Modes : Upload(mode)
    \/ Startup
    \/ Shutdown
    \/ \E w \in WorkerIds : WorkerGet(w)
    \/ \E s \in Sessions : JobStep(s)

Spec == Init /\ [][Next]_vars

\* The AudioProcessor under any sequence of start, stop and process_audio calls
NextCalls ==
    \/ \E mode \in Modes : Upload(mode)
    \/ Start
    \/ Stop
    \/ \E w \in WorkerIds : WorkerGet(w)
    \/ \E s \in Sessions : JobStep(s)

\* these runs are followed with at most MaxCallFaults failed calls
InitCalls == Constructed(MaxFaults - MaxCallFaults)

SpecCalls == InitCalls /\ [][NextCalls]_vars

\* The service started and never stopped: the event loop resumes every
\* coroutine that can go on, every collaborator call ends, the clock advances
NextLive ==
    \/ \E mode \in Modes : Upload(mode)
    \/ Startup
    \/ \E w \in WorkerIds : WorkerGet(w)
    \/ \E s \in Sessions : JobStep(s)

SpecLive ==
    /\ Init /\ [][NextLive]_vars
    /\ WF_vars(Startup)
    /\ \A w \in WorkerIds : WF_vars(WorkerGet(w))
    /\ \A s \in Sessions : WF_vars(JobStep(s))

\* VeoClient.wait_for_video called with any of the arguments, against a
\* provider that answers each poll in any way and after any of the latencies
NextWait ==
    \/ \E t \in WaitTimeouts, p \in WaitIntervals : WaitCall(t, p)
    \/ \E a \in PollAnswers, d \in PollLatencies : WaitPoll(a, d)

SpecWait == Init /\ [][NextWait]_vars

\* One function of the program called once, directly, with any of the inputs
NextDirect ==
    \/ \E transcript \in Texts, r \in SummaryAnswers : SummarizeCall(transcript, r)
    \/ \E ne \in 0..MaxOutputElements, nk \in 0..MaxOutputKeywords : BriefCall(ne, nk)
    \/ \E structured_prompt \in Briefs : FormatCall(structured_prompt)

SpecDirect == Init /\ [][NextDirect]_vars

\* A video client whose token expires at any time sends any sequence of
\* submit and poll requests
NextAuth ==
    \/ \E valid \in BOOLEAN : VeoClientInit(valid)
    \/ TokenExpires
    \/ \E request \in AuthenticatedCalls, refresh_ok \in BOOLEAN :
          AuthenticatedCall(request, refresh_ok)

SpecAuth == Init /\ [][NextAuth]_vars

\* ================================================================ claims

ImageKeys == {"image_url", "image_prompt"}
VideoKeys == {"video_url", "video_prompt"}

\* the last row get_status_updates returns for s, as main.get_status reads it
Latest(s) == get_status_updates(s)[Len(get_status_updates(s))]

\* the statuses of the rows of s in sequence-number order
StatusesOf(s) ==
    [i \in 1..Len(get_status_updates(s)) |-> get_status_updates(s)[i].status]

HasRows(s) == get_status_updates(s) # <<>>

\* _process_task has returned for s without an exception
Completed(s) == job[s].pc = "returned"

\* the video provider delivered a video for s
VideoDelivered(s) == job[s].video_result \in {"completed_uri", "completed_b64"}

\* the video branch of s failed: a step of _generate_video raised, or the
\* provider reported the operation done with an error
VideoBranchFailed(s) == job[s].video_result = "raised" \/ job[s].operation = "error"

\* C1: a job that completes successfully has completed as its latest status and
\* a stored result with status completed; an image-mode result holds image_url
\* and image_prompt and neither video key, a video-mode result holds neither
\* image key, and a both-mode result holds image_url and video_url when the
\* image was rendered and the video provider delivered a video.
C1_ResultMatchesMode ==
    \A s \in Sessions :
        Completed(s) =>
            LET r == get_session_results(s) IN
            /\ HasRows(s) /\ Latest(s).status = "completed"
            /\ r.present /\ r.status = "completed"
            /\ r.generation_mode = job[s].generation_mode
            /\ r.generation_mode = "image" =>
                   ImageKeys \subseteq r.keys /\ r.keys \cap VideoKeys = {}
            /\ r.generation_mode = "video" => r.keys \cap ImageKeys = {}
            /\ (r.generation_mode = "both" /\ job[s].image_url # None /\ VideoDelivered(s)) =>
                   /\ {"image_url", "video_url"} \subseteq r.keys
                   /\ r.image_url # None /\ r.video_url # None

C1_Witness ==
    \E s \in Sessions :
        /\ Completed(s)
        /\ job[s].generation_mode = "both"
        /\ job[s].image_url # None /\ VideoDelivered(s)
        /\ {"image_url", "video_url"} \subseteq get_session_results(s).keys

\* C2: in both mode, a completed job whose video branch failed while the image
\* was rendered has a result with image_url and image_prompt and with neither
\* video_url nor video_prompt.
C2_VideoFailureKeepsImageOnly ==
    \A s \in Sessions :
        (/\ Completed(s)
         /\ job[s].generation_mode = "both"
         /\ job[s].image_url # None
         /\ VideoBranchFailed(s)) =>
            /\ ImageKeys \subseteq get_session_results(s).keys
            /\ get_session_results(s).keys \cap VideoKeys = {}

\* C3: in video mode, a completed job whose video generation failed has a
\* result with none of the four media keys, and its title came from the text
\* call.
C3_VideoFailureNoMedia ==
    \A s \in Sessions :
        (/\ Completed(s)
         /\ job[s].generation_mode = "video"
         /\ VideoBranchFailed(s)) =>
            /\ get_session_results(s).keys \cap (ImageKeys \cup VideoKeys) = {}
            /\ TitleCall(job[s]) = "text"

\* the failures C4 names: transcription, summarization, image generation in
\* image mode, title generation, the result upsert
FatalFailure(s) ==
    \/ job[s].failed_in \in {"transcribe", "summarize", "title_text", "title_vision",
                             "notify_user"}
    \/ /\ job[s].generation_mode = "image"
       /\ job[s].failed_in \in {"image_prompt", "images.generate"}

\* the stage a failing call belongs to
StageOf(call) ==
    CASE call = "transcribe" -> "transcription"
      [] call = "summarize" -> "summarization"
      [] call \in {"image_prompt", "images.generate"} -> "media_generation"
      [] call \in {"title_text", "title_vision"} -> "title_generation"
      [] OTHER -> "storing_results"

\* a failed row of s carrying the error and the stage of the failure of s
FailureRecorded(s) ==
    \E i \in 1..Len(get_status_updates(s)) :
        /\ get_status_updates(s)[i].status = "failed"
        /\ get_status_updates(s)[i].additional_info.error = job[s].failed_in
        /\ get_status_updates(s)[i].additional_info.stage = StageOf(job[s].failed_in)

\* the handler of _process_task has run for s
HandlerDone(s) == job[s].pc \in {"worker_update_failed", "raised"}

\* s is at most once among the tasks taken, and not in the queue once taken
TakenOnce(s) ==
    /\ Cardinality({i \in 1..Len(dequeued) : dequeued[i] = s}) <= 1
    /\ (\E i \in 1..Len(dequeued) : dequeued[i] = s) =>
           \A k \in 1..Len(queue) : queue[k].session_id # s

C5_FifoOneAtATime ==
    /\ \A i \in 1..Len(dequeued) : dequeued[i] = i
    /\ \A i \in 1..(Len(dequeued) - 1) : job[dequeued[i]].pc \in {"returned", "raised"}
    /\ Cardinality({s \in Sessions : Busy(s)}) <= 1

C5_Witness ==
    /\ Len(dequeued) >= 2
    /\ Busy(dequeued[Len(dequeued)])
    /\ queue = <<>>

\* C6: at most one worker loop is live and at most one job is being processed,
\* whatever start, stop and process_audio calls were made.
C6_OneWorkerLoop ==
    /\ Cardinality(Live) <= 1
    /\ Cardinality({s \in Sessions : Busy(s)}) <= 1

\* C7: the sequence numbers get_status_updates returns for a session are
\* 1, 2, 3, ... without gap or duplicate.
C7_SequenceNumbersDense ==
    \A s \in Sessions :
        \A i \in 1..Len(get_status_updates(s)) :
            get_status_updates(s)[i].sequence_number = i

\* the place of a status in the stage order; failed comes last
Rank(status) ==
    CASE status = "transcribing" -> 1
      [] status = "summarizing" -> 2
      [] status \in {"generating_image", "generating_video", "generating_media"} -> 3
      [] status = "generating_title" -> 4
      [] status = "storing" -> 5
      [] status = "completed" -> 6
      [] OTHER -> 7

\* C8: in the rows persisted for a session, in the order they were inserted and
\* in sequence-number order alike, no status comes after one of a later stage,
\* and after a failed row every row is failed.
C8_StatusNeverMovesBack ==
    \A s \in Sessions :
        /\ get_status_updates(s) = update_status[s]
        /\ \A i, k \in 1..Len(update_status[s]) :
               i < k =>
                   /\ Rank(update_status[s][i].status) <= Rank(update_status[s][k].status)
                   /\ update_status[s][i].status = "failed" =>
                          update_status[s][k].status = "failed"

C8_Witness ==
    \E s \in Sessions :
        /\ Len(update_status[s]) >= 4
        /\ update_status[s][Len(update_status[s])].status = "failed"
        /\ update_status[s][Len(update_status[s]) - 1].status = "failed"
        /\ update_status[s][1].status = "transcribing"

\* the status a job writes before the capability calls it is waiting on
StageStatus(j) ==
    CASE j.pc = "transcribe" -> "transcribing"
      [] j.pc = "summarize" -> "summarizing"
      [] j.pc \in {"image_prompt", "media"} -> MediaStatus(j.generation_mode)
      [] j.pc = "title" -> "generating_title"
      [] j.pc = "notify_user" -> "storing"
      [] OTHER -> None

\* C9: while a job waits on a capability call of a stage, the latest row of its
\* session names that stage; and a job whose processing ended without being
\* cancelled has completed or failed as its last status update, which is the
\* latest row of the session whenever the database accepted it (a returned job's
\* completed update was accepted).
C9_StatusBeforeStage ==
    \A s \in Sessions :
        /\ (Busy(s) /\ StageStatus(job[s]) # None) =>
               HasRows(s) /\ Latest(s).status = StageStatus(job[s])
        /\ job[s].pc \in {"returned", "raised"} =>
               /\ job[s].last_update \in {"completed", "failed"}
               /\ job[s].last_ok => HasRows(s) /\ Latest(s).status = job[s].last_update
               /\ job[s].pc = "returned" => job[s].last_ok /\ job[s].last_update = "completed"

C9_Witness ==
    \E s \in Sessions :
        /\ Busy(s) /\ job[s].pc = "media" /\ job[s].generation_mode = "video"
        /\ job[s].vid = "poll"
        /\ Latest(s).status = "generating_video"

\* C10: a both-mode job that completed with no collaborator call failing has
\* the statuses transcribing, summarizing, generating_media (written when the
\* media stage starts and again when the image result is reported),
\* generating_title, storing, completed, in this order and no other.
C10_BothModeStatuses ==
    \A s \in Sessions :
        (faults = 0 /\ Completed(s) /\ job[s].generation_mode = "both") =>
            StatusesOf(s) = <<"transcribing", "summarizing", "generating_media",
                              "generating_media", "generating_title", "storing",
                              "completed">>

C10_Witness ==
    \E s \in Sessions :
        /\ faults = 0 /\ Completed(s) /\ job[s].generation_mode = "both"
        /\ Len(StatusesOf(s)) = 7
        /\ {"image_url", "video_url"} \subseteq get_session_results(s).keys

\* C11: for every job that failed, the latest status row of its session is a
\* failed row that carries an error message and the name of the failing stage.
C11_LatestFailedNamesStage ==
    \A s \in Sessions :
        (job[s].pc = "raised" /\ HasRows(s)) =>
            /\ Latest(s).status = "failed"
            /\ Latest(s).additional_info.error # None
            /\ Latest(s).additional_info.stage # None

\* a terminal status
Terminal(status) == status \in {"completed", "failed"}

\* stop cancelled the worker while it was running s
Abandoned(s) == job[s].pc = "abandoned"

\* C12: when stop cancels the worker while a job is in flight, the step writes
\* no status row and no result, and none is written for the session afterwards;
\* a job that had not failed by itself has no completed and no failed row, so
\* its latest row, if any, is the intermediate status it wrote last; and the
\* cancelled worker task ends in a way that makes stop return.
C12_CancellationIsNotAFailure ==
    /\ [](\A s \in Sessions :
            (Abandoned(s) /\ job[s].failed_in = None) =>
                /\ \A i \in 1..Len(update_status[s]) : ~Terminal(update_status[s][i].status)
                /\ (job[s].last_ok /\ HasRows(s)) => Latest(s).status = job[s].last_update)
    /\ [](\A w \in WorkerIds :
            worker[w].state \in {"exited", "cancelled"} =>
                StopOutcome(worker[w].state) = "returns")
    /\ [][\A s \in Sessions :
            Abandoned(s)' =>
                /\ update_status'[s] = update_status[s]
                /\ update_counters'[s] = update_counters[s]
                /\ completed_results'[s] = completed_results[s]]_vars

C12_Witness ==
    \E s \in Sessions :
        /\ Abandoned(s) /\ job[s].failed_in = None
        /\ HasRows(s) /\ Latest(s).status = "generating_media"
        /\ worker[worker_task].state = "exited"

\* C13: in video mode no call of the media stage makes the job fail, and a
\* completed job whose video generation raised has neither video_url nor
\* video_prompt in its result.
C13_VideoModeMediaNeverFatal ==
    \A s \in Sessions :
        job[s].generation_mode = "video" =>
            /\ job[s].failed_in \notin {"image_prompt", "images.generate"}
            /\ (Completed(s) /\ job[s].video_result = "raised") =>
                   get_session_results(s).keys \cap VideoKeys = {}

\* s has a persisted row with this status
HasStatus(s, status) ==
    \E i \in 1..Len(update_status[s]) : update_status[s][i].status = status

\* s has a persisted generating_media row whose payload marks the medium failed
MarkedFailed(s, medium) ==
    \E i \in 1..Len(update_status[s]) :
        /\ update_status[s][i].status = "generating_media"
        /\ update_status[s][i].additional_info[medium] = "failed"

\* C14: in both mode, once generating_title is persisted, a failed image branch
\* and a failed video branch are each marked failed in a persisted
\* generating_media row.
C14_FailedBranchIsMarked ==
    \A s \in Sessions :
        (job[s].generation_mode = "both" /\ HasStatus(s, "generating_title")) =>
            /\ job[s].pc \in {"title", "update_storing", "notify_user", "update_completed",
                              "returned"} =>
                   (job[s].image_url = None => MarkedFailed(s, "image"))
            /\ job[s].video_result = "raised" => MarkedFailed(s, "video")

\* the image branch, the video branch of j has ended
ImageEnded(j) == j.img \in {"done", "failed"}
VideoEnded(j) == j.vid = "done"

\* j is a both-mode job inside asyncio.gather
Gathering(j) == j.generation_mode = "both" /\ j.pc = "media"

\* C15: in both mode the two branches are in progress together and the job
\* leaves the gather exactly when both have ended; a step of one branch,
\* its failure included, leaves the other branch where it is; and at the join
\* each branch's own outcome is there: the image URL exactly when the image
\* branch succeeded, the video URL whenever the provider delivered a video,
\* whatever happened to the other branch.
C15_BranchesAreIsolated ==
    /\ [](\A s \in Sessions :
            /\ Gathering(job[s]) => ~(ImageEnded(job[s]) /\ VideoEnded(job[s]))
            /\ (job[s].generation_mode = "both" /\ job[s].pc = "update_media_result") =>
                   /\ ImageEnded(job[s]) /\ VideoEnded(job[s])
                   /\ (job[s].img = "done") <=> (job[s].image_url # None)
                   /\ VideoDelivered(s) => job[s].video_url # None
                   /\ job[s].video_result = "raised" => job[s].video_url = None)
    /\ [][\A s \in Sessions :
            (Gathering(job[s]) /\ Gathering(job[s])') =>
                /\ job[s].img # job'[s].img =>
                       /\ job'[s].vid = job[s].vid
                       /\ job'[s].video_url = job[s].video_url
                       /\ job'[s].video_result = job[s].video_result
                /\ job[s].vid # job'[s].vid =>
                       /\ job'[s].img = job[s].img
                       /\ job'[s].image_url = job[s].image_url]_vars

\* at the join the image branch has failed and the video branch holds the
\* video the provider delivered
C15_Witness ==
    \E s \in Sessions :
        /\ job[s].generation_mode = "both" /\ job[s].pc = "update_media_result"
        /\ job[s].img = "failed"
        /\ VideoDelivered(s) /\ job[s].video_url # None

\* floor(timeout_seconds / poll_interval) of the call
PollQuota == wait.timeout_seconds \div wait.poll_interval

\* the call has returned and no poll reported the operation done
WaitedInVain == wait.pc = "returned" /\ wait.operation = "running"

\* C16 as stated: when no poll reports done, the call returns the timeout
\* result, no poll was started with the elapsed time at or past the timeout,
\* and the number of polls issued is floor(timeout / interval) - 1, that
\* number, or that number + 1.
C16_PollCountWithinOne ==
    /\ ~wait.late
    /\ WaitedInVain =>
           /\ wait.result = "timeout"
           /\ wait.polls \in (PollQuota - 1)..(PollQuota + 1)

\* C16, amended: when no poll reports done, the call returns the timeout
\* result; no poll is ever started with the elapsed time at or past the timeout;
\* the number of polls issued never exceeds floor(timeout / interval) + 1; and
\* it is at least floor(timeout / interval) when no poll took any time.
C16_PollCountBounded ==
    /\ ~wait.late
    /\ wait.pc # "idle" => wait.polls <= PollQuota + 1
    /\ WaitedInVain =>
           /\ wait.result = "timeout"
           /\ ~wait.delayed => wait.polls >= PollQuota

C16_Witness ==
    /\ WaitedInVain /\ wait.result = "timeout"
    /\ wait.timeout_seconds = TimeoutSeconds /\ wait.poll_interval = PollInterval
    /\ wait.polls = 9 /\ ~wait.delayed /\ wait.poll_raised

\* C17: once a poll has reported done together with an error, wait_for_video
\* has raised: it issues no further poll for the operation and returns no
\* result value.
C17_DoneWithErrorRaises ==
    /\ ~wait.polled_after_error
    /\ wait.operation = "error" => wait.pc = "raised" /\ wait.result = None

\* the step answers the poll in flight with one of the answers
Answered(answers) ==
    wait.pc = "polling" /\ wait' # wait /\ wait'.answer \in answers

\* the answers that report the operation done with a video that has a location
WithVideo == {"done_uri", "done_b64", "done_both"}

\* C18: a poll that raises does not end the call: the loop sleeps poll_interval
\* and, the elapsed time still under the timeout, polls again (it returns the
\* timeout result otherwise); and a poll that reports done with a video after
\* earlier polls raised makes the call return a completed result.
C18_RaisingPollIsRetried ==
    /\ [][Answered({"raise"}) =>
            /\ wait'.clock >= wait.clock + wait.poll_interval
            /\ IF wait'.clock < wait.timeout_seconds
               THEN wait'.pc = "polling" /\ wait'.polls = wait.polls + 1
               ELSE wait'.pc = "returned" /\ wait'.result = "timeout"]_vars
    /\ [][Answered(WithVideo) /\ wait.poll_raised =>
            /\ wait'.pc = "returned"
            /\ wait'.result \in {"completed_uri", "completed_b64"}]_vars

C18_Witness ==
    /\ wait.pc = "returned" /\ wait.poll_raised /\ wait.answer \in WithVideo
    /\ wait.result = "completed_b64" /\ wait.polls >= 3

\* the answers that report the operation done, without error, with a video list
\* that is not empty
NonEmptyVideos == WithVideo \cup {"done_no_location"}

\* the result that carries the location of the first video of the answer, the
\* storage URI when the video has one
FirstVideoResult(a) ==
    IF a \in {"done_uri", "done_both"} THEN "completed_uri" ELSE "completed_b64"

\* C19: a poll that reports done with a non-empty video list and no error makes
\* the call return status completed with the location of the first video, the
\* storage URI rather than the inline bytes when the video carries both.
C19_FirstVideoIsReturned ==
    [][Answered(NonEmptyVideos) =>
         /\ wait'.pc = "returned"
         /\ wait'.result \in {"completed_uri", "completed_b64"}
         /\ wait'.answer \in WithVideo => wait'.result = FirstVideoResult(wait'.answer)]_vars

\* the step ends the remote upload of the session's image, or of its video
ImageUploadEnds(s) ==
    /\ job[s].pc = "media" /\ job[s].img = "upload"
    /\ job'[s].img # "upload" /\ job'[s].pc # "abandoned"

VideoUploadEnds(s) ==
    /\ job[s].pc = "media" /\ job[s].vid = "upload"
    /\ job'[s].vid # "upload" /\ job'[s].pc # "abandoned"

\* the URL the upload step must leave: the local path when the upload raised
UrlAfterUpload == IF faults' > faults THEN "local" ELSE "cloud"

\* C20: storing an image or an inline-bytes video never fails because the remote
\* service failed: a remote upload that raises ends with the branch done and the
\* local path as the URL, no error recorded; and with no remote service there is
\* no upload and the stored URL is the local path.
C20_UploadFailureFallsBackToLocal ==
    /\ [][\A s \in Sessions :
            /\ ImageUploadEnds(s) =>
                 /\ job'[s].img \in {"done", "off"} /\ job'[s].image_url = UrlAfterUpload
                 /\ job'[s].failed_in = None /\ job'[s].error = None
            /\ VideoUploadEnds(s) =>
                 /\ job'[s].vid \in {"done", "off"} /\ job'[s].video_url = UrlAfterUpload
                 /\ job'[s].video_result = "completed_b64"
                 /\ job'[s].failed_in = None /\ job'[s].error = None]_vars
    /\ [](\A s \in Sessions : ~cloudinary_service =>
            /\ job[s].img # "upload" /\ job[s].vid # "upload"
            /\ job[s].image_url \in {None, "local"}
            /\ job[s].video_result = "completed_b64" => job[s].video_url = "local")

C20_Witness ==
    \E s \in Sessions :
      /\ cloudinary_service /\ job[s].generation_mode = "both"
      /\ job[s].image_url = "local" /\ job[s].video_url = "local"
      /\ job[s].video_result = "completed_b64" /\ job[s].pc = "update_media_result"

\* the number of characters from the first to the last one that is not whitespace
TrimmedLen(text) ==
    LET solid == {i \in 1..Len(text) : text[i] # " "}
    IN IF solid = {} THEN 0
       ELSE (CHOOSE i \in solid : \A k \in solid : k <= i)
            - (CHOOSE i \in solid : \A k \in solid : k >= i) + 1

\* C21: for a transcript that is empty or has fewer than 5 characters after
\* trimming, _summarize returns the placeholder text, does not call the
\* summarization capability and does not raise.
C21_BriefTranscriptGetsPlaceholder ==
    direct.fn = "_summarize" /\ TrimmedLen(direct.transcript) < 5 =>
        /\ direct.output = Placeholder
        /\ ~direct.requested

C21_Witness ==
    /\ direct.fn = "_summarize"
    /\ direct.transcript = <<" ", "a", "a", "a", "a", " ">>
    /\ direct.output = Placeholder /\ ~direct.requested

\* a status row of s reports the image branch as completed
ImageReported(s) ==
    \E i \in 1..Len(get_status_updates(s)) :
        get_status_updates(s)[i].additional_info.image = "completed"

\* C22: while the title call is awaited, it is the vision call exactly when an
\* image was produced in the job, which is the case in image mode and in both
\* mode with a successful image branch; the text call otherwise gets the summary
\* with the video prompt when there is one, and with the image prompt if not.
C22_TitleCallFollowsImage ==
    \A s \in Sessions : At(s, "title") =>
        LET j == job[s]
        IN /\ TitleCall(j) = "vision" <=> j.image_url # None
           /\ j.image_url # None <=>
                \/ j.generation_mode = "image"
                \/ j.generation_mode = "both" /\ ImageReported(s)
           /\ TitleCall(j) = "text" =>
                TitleInput(j) = IF j.video_prompt # None
                                THEN <<"summary", "brief">>
                                ELSE <<"summary", "prompt">>

C22_Witness ==
    \E s \in Sessions :
        /\ At(s, "title") /\ job[s].generation_mode = "both"
        /\ job[s].image_url = None /\ job[s].video_prompt = None
        /\ TitleCall(job[s]) = "text"

\* C23: generate_video_prompt raises whenever the model output has fewer than 8
\* or more than 12 elements, or fewer than 5 or more than 10 keywords; a brief
\* it returns is the output's two lists unchanged, within both bounds.
C23_BriefBoundsAreEnforced ==
    direct.fn = "generate_video_prompt" =>
        /\ Len(direct.elements) < 8 \/ Len(direct.elements) > 12 => direct.raised
        /\ Len(direct.keywords) < 5 \/ Len(direct.keywords) > 10 => direct.raised
        /\ direct.raised => direct.returned = NoBrief
        /\ ~direct.raised =>
             /\ direct.returned.elements = direct.elements
             /\ direct.returned.keywords = direct.keywords
             /\ Len(direct.returned.elements) \in 8..12
             /\ Len(direct.returned.keywords) \in 5..10

C23_Witness ==
    /\ direct.fn = "generate_video_prompt"
    /\ Len(direct.elements) = 12 /\ Len(direct.keywords) = 11
    /\ direct.raised

\* the place of a clause in the order of the contract, told by its first piece
ClauseRank(clause) ==
    CASE Head(clause) = "Visual style: " -> 2
      [] Head(clause) = "Camera: " -> 3
      [] Head(clause) = "Lighting: " -> 4
      [] Head(clause) = "Setting: " -> 5
      [] Head(clause) = "The scene includes " -> 6
      [] Head(clause) = "Motion: " -> 7
      [] Head(clause) = "The video ends with " -> 8
      [] Head(clause) = "Keywords: " -> 9
      [] Head(clause) = "No text overlays." -> 10
      [] OTHER -> 1

\* the ranks of the clauses of a formatted prompt
RanksOf(prompt) == {ClauseRank(prompt[i]) : i \in 1..Len(prompt)}

\* the text is 'none' in some mix of upper and lower case
IsNoneAnyCase(text) ==
    /\ Len(text) = 4
    /\ text[1] \in {"n", "N"} /\ text[2] \in {"o", "O"}
    /\ text[3] \in {"n", "N"} /\ text[4] \in {"e", "E"}

ElementsClausesOf(prompt) ==
    {prompt[i] : i \in {k \in 1..Len(prompt) : ClauseRank(prompt[k]) = 6}}

\* the elements a clause names, in the order it names them
ListedIn(clause, elements) ==
    SelectSeq(clause, LAMBDA piece : \E i \in 1..Len(elements) : elements[i] = piece)

\* the pieces of a clause before its final full stop
Body(clause) == SubSeq(clause, 1, Len(clause) - 1)

\* C25: for a brief with n elements format_for_veo lists the first min(5, n) of
\* them in their order; with n <= 5 the elements clause has no count suffix,
\* with n >= 6 it ends with ', and {n-5} more detailed elements'.
C25_FirstFiveElementsAndCount ==
    direct.fn = "format_for_veo" =>
        LET elements == direct.structured_prompt.elements
            n == Len(elements)
            clauses == ElementsClausesOf(direct.returned)
        IN /\ n = 0 => clauses = {}
           /\ n >= 1 => Cardinality(clauses) = 1
           /\ \A clause \in clauses :
                /\ ListedIn(clause, elements) = SubSeq(elements, 1, IF n < 5 THEN n ELSE 5)
                /\ n <= 5 => \A i \in 1..Len(clause) : clause[i] # " more detailed elements"
                /\ n >= 6 =>
                     /\ Len(clause) >= 4
                     /\ SubSeq(Body(clause), Len(clause) - 3, Len(clause) - 1)
                          = <<", and ", ToString(n - 5), " more detailed elements">>

C25_Witness ==
    /\ direct.fn = "format_for_veo"
    /\ Len(direct.structured_prompt.elements) = 13
    /\ \E clause \in ElementsClausesOf(direct.returned) :
          /\ ListedIn(clause, direct.structured_prompt.elements)
               = <<"e1", "e2", "e3", "e4", "e5">>
          /\ clause[Len(clause) - 2] = "8"

\* C26: no request of the video client is sent with a credential that was found
\* invalid: a request sent after the credential was found invalid carries a
\* token refreshed for it, newer than the token of every earlier request, and a
\* refresh that raises sends nothing.
C26_InvalidTokenIsRefreshedFirst ==
    direct.fn = "VeoClient" =>
        /\ \A i \in 1..Len(direct.sent) :
             /\ direct.sent[i].valid
             /\ ~direct.sent[i].found_valid =>
                  /\ direct.sent[i].token >= 1
                  /\ \A k \in 1..(i - 1) : direct.sent[k].token < direct.sent[i].token
        /\ direct.raised => ~direct.valid

C26_Witness ==
    /\ direct.fn = "VeoClient" /\ Len(direct.sent) = 3
    /\ direct.sent[1].request = "generate_video" /\ ~direct.sent[1].found_valid
    /\ direct.sent[2].request = "get_operation_status" /\ direct.sent[2].found_valid
    /\ direct.sent[3].request = "get_operation_status" /\ ~direct.sent[3].found_valid
    /\ direct.sent[3].token = 2

\* C27: the result of a job is upserted before its completed status is written:
\* the step that inserts a completed row finds the result record already
\* stored, and whenever a session has a completed row, as its latest or not,
\* get_session_results returns a record for it.
C27_ResultBeforeCompleted ==
    /\ [][\A s \in Sessions :
            ~HasStatus(s, "completed") /\ HasStatus(s, "completed")'
                => get_session_results(s).present]_vars
    /\ [](\A s \in Sessions : HasStatus(s, "completed") =>
            /\ get_session_results(s).present
            /\ get_session_results(s).status = "completed")

C27_Witness ==
    \E s \in Sessions :
        /\ HasRows(s) /\ Latest(s).status = "completed"
        /\ get_session_results(s).present
        /\ get_session_results(s).generation_mode = "video"

\* the job of s is over: _process_task returned, or its exception was handled
\* by the worker
JobOver(s) == job[s].pc \in {"returned", "raised"}

\* the rows of s with a terminal status, by their place in the table
TerminalRows(s) ==
    {i \in 1..Len(update_status[s]) : Terminal(update_status[s][i].status)}

\* C28: a job that ran to completion or failed has written exactly one terminal
\* status update (completed or failed), and that update is the last row
\* written for the job.
C28_OneTerminalUpdate ==
    \A s \in Sessions : JobOver(s) =>
        /\ Cardinality(TerminalRows(s)) = 1
        /\ TerminalRows(s) = {Len(update_status[s])}

\* C29: a persisted result that contains a video_url has the video stored at
\* that location: the remote upload returned the URL, or the video bytes were
\* written to the local path the URL names.
C29_VideoUrlNamesStoredVideo ==
    \A s \in Sessions :
        LET r == get_session_results(s)
        IN (job[s].pc \in {"update_completed", "returned"} /\ "video_url" \in r.keys) =>
              \/ r.video_url = "cloud"
              \/ /\ r.video_url = "local"
                 /\ WrittenFile(job[s].video_result, job[s].video_url)
                      = "generated_videos/<session>.mp4"

\* C30: in every persisted result image_url is present exactly when
\* image_prompt is, video_url exactly when video_prompt is, and no media field
\* that is present holds a null value.
C30_MediaFieldsPairedAndSet ==
    \A s \in Sessions :
        LET r == get_session_results(s)
        IN r.present =>
             /\ "image_url" \in r.keys <=> "image_prompt" \in r.keys
             /\ "video_url" \in r.keys <=> "video_prompt" \in r.keys
             /\ "image_url" \in r.keys => r.image_url # None
             /\ "image_prompt" \in r.keys => r.image_prompt # None
             /\ "video_url" \in r.keys => r.video_url # None
             /\ "video_prompt" \in r.keys => r.video_prompt # None

\* the worker tasks that are running the job of s
Writers(s) == {w \in WorkerIds : worker[w].state = "busy" /\ worker[w].session = s}

\* the positions of a job at which it awaits update_status or notify_user
WritePcs ==
    {"update_transcribing", "update_summarizing", "update_media", "update_media_result",
     "update_title", "update_storing", "notify_user", "update_completed",
     "update_failed", "worker_update_failed"}

\* a media branch of the job has been started and has not ended
BranchRunning(j) ==
    j.img \in {"render", "upload"} \/ j.vid \in {"brief", "submit", "poll", "upload"}

\* the step changes what is persisted for s
Writes(s) ==
    \/ update_status'[s] # update_status[s]
    \/ update_counters'[s] # update_counters[s]
    \/ completed_results'[s] # completed_results[s]

\* C31: no two writes for one session are in flight together: at most one
\* worker runs the job of a session, that job awaits a write only while none of
\* its media branches is running, and every step that changes the rows, the
\* counter or the result of a session is the end of a write its job awaited.
C31_OneWriterPerSession ==
    /\ [](\A s \in Sessions :
            /\ Cardinality(Writers(s)) <= 1
            /\ job[s].pc \in WritePcs => ~BranchRunning(job[s]))
    /\ [][\A s \in Sessions :
            Writes(s) => Cardinality(Writers(s)) = 1 /\ job[s].pc \in WritePcs]_vars

C31_Witness ==
    \E s \in Sessions, t \in Sessions :
        /\ s # t /\ Busy(s) /\ Busy(t)
        /\ job[s].pc = "update_media_result" /\ job[s].generation_mode = "both"
        /\ job[t].pc = "media" /\ BranchRunning(job[t])

\* the positions of a job from the media branches to its return
PastImagePrompt ==
    {"media", "update_media_result", "update_title", "title", "update_storing",
     "notify_user", "update_completed", "returned"}

\* C32: a job calls the image-prompt capability at most once, and exactly once
\* when it has got past that call, in every mode; a video-mode job never calls
\* the image render; an image-mode job never submits or polls a video operation.
C32_CallsFollowMode ==
    \A s \in Sessions :
        /\ job[s].prompt_calls <= 1
        /\ job[s].pc \in PastImagePrompt => job[s].prompt_calls = 1
        /\ job[s].generation_mode = "video" => "images.generate" \notin job[s].called
        /\ job[s].generation_mode = "image" =>
             job[s].called \cap {"generate_video", "get_operation_status"} = {}

C32_Witness ==
    \E s \in Sessions, t \in Sessions :
        /\ Completed(s) /\ job[s].generation_mode = "both" /\ job[s].prompt_calls = 1
        /\ job[s].called = {"images.generate", "generate_video", "get_operation_status"}
        /\ Completed(t) /\ job[t].generation_mode = "video" /\ job[t].prompt_calls = 1
        /\ job[t].called = {"generate_video", "get_operation_status"}

\* C33: after a job has failed, whatever failed, the worker loop is alive: no
\* worker task is ever ended by an exception of a job.
C33_WorkerSurvivesFailure ==
    \A w \in WorkerIds : worker[w].state # "crashed"

\* s was enqueued by an upload
Enqueued(s) == uploaded >= s

\* C34: with the worker started and never stopped, every call ending and time
\* advancing, every enqueued job eventually has a terminal status row,
\* completed or failed.
C34_EveryJobReachesTerminalStatus ==
    \A s \in Sessions :
        Enqueued(s) ~> (HasStatus(s, "completed") \/ HasStatus(s, "failed"))

\* C35: whenever the latest status row of a session is failed, no result record
\* is stored for the session.
C35_FailedHasNoResult ==
    \A s \in Sessions :
        (HasRows(s) /\ Latest(s).status = "failed") => ~get_session_results(s).present

\* C36: when wait_for_video returns the timeout result the job does not fail on
\* that account and no row marks the video failed: video_url is the pending
\* marker of the operation, and the job, once completed, has stored it together
\* with video_prompt.
C36_TimeoutGivesPendingUrl ==
    \A s \in Sessions :
        job[s].video_result = "timeout" =>
            /\ job[s].video_url = "pending"
            /\ job[s].failed_in = None
            /\ ~MarkedFailed(s, "video")
            /\ ~HasStatus(s, "failed")
            /\ Completed(s) =>
                 /\ get_session_results(s).present
                 /\ VideoKeys \subseteq get_session_results(s).keys
                 /\ get_session_results(s).video_url = "pending"
                 /\ get_session_results(s).video_prompt = "brief"

C36_Witness ==
    \E s \in Sessions :
        /\ Completed(s) /\ job[s].video_result = "timeout"
        /\ job[s].generation_mode = "both"
        /\ get_session_results(s).video_url = "pending"
        /\ Latest(s).status = "completed"

\* C37: whatever the polls answer, the value wait_for_video returns has a status
\* field, and its value is completed, timeout or error.
C37_ResultAlwaysHasStatus ==
    wait.pc = "returned" =>
        wait.result \in {"completed_uri", "completed_b64", "timeout", "error"}

\* C38: once upload has returned the session id of a job, the session has at
\* least one status row, so a status query does not answer "Session not found",
\* also while the job waits in the queue or no worker runs.
C38_UploadedSessionHasStatus ==
    \A s \in Sessions : Enqueued(s) => HasRows(s)

\* what a call of stop does in the current state: with worker_task None the
\* body is skipped (line 58); otherwise the task is cancelled and awaited, and
\* the await ends as the task worker_task names ended, or ends once cancelled
StopResult ==
    IF worker_task = 0 THEN "returns"
    ELSE IF worker[worker_task].state \in {"waiting", "busy"}
         THEN StopOutcome(CancelledEnd(IF worker[worker_task].state = "busy"
                                       THEN job[worker[worker_task].session].pc
                                       ELSE "queue.get"))
         ELSE StopOutcome(worker[worker_task].state)

\* C39: in every state of the worker (never started, waiting for a task, in the
\* middle of a job, already stopped, ended by an error that left its loop) a
\* call of stop returns and does not raise.
C39_StopNeverRaises == StopResult = "returns"

\* start was called once and a call of stop has returned since
StoppedOnce == Cardinality(Born) = 1 /\ worker[1].state \in {"exited", "cancelled"}

\* the tasks taken are the oldest ones in the order of their upload, and the
\* queue holds all the others in that order
KeptInOrder ==
    /\ \A i \in 1..Len(dequeued) : dequeued[i] = i
    /\ Len(queue) = uploaded - Len(dequeued)
    /\ \A k \in 1..Len(queue) : queue[k].session_id = Len(dequeued) + k

\* C40: with start called once, after stop has returned and until start is
\* called again no job is being processed, no step takes a task from the queue
\* or changes the rows, the counter or the result of a session, and the queue
\* only grows at its end; the start that follows leaves the queue as it is, and
\* the new worker (the first one having ended by that stop) takes the tasks
\* kept in the order of their upload, one at a time.
C40_StoppedWorkerKeepsQueue ==
    /\ [](StoppedOnce => (KeptInOrder /\ \A s \in Sessions : ~Busy(s)))
    /\ []((Cardinality(Born) = 2 /\ worker[1].state \in {"exited", "cancelled"}) =>
            /\ KeptInOrder
            /\ Cardinality({s \in Sessions : Busy(s)}) <= 1
            /\ \A i \in 1..(Len(dequeued) - 1) : ~Busy(dequeued[i]))
    /\ [][StoppedOnce =>
            /\ \A s \in Sessions : ~Writes(s)
            /\ dequeued' = dequeued
            /\ Len(queue') >= Len(queue)
            /\ SubSeq(queue', 1, Len(queue)) = queue]_vars

C40_Witness ==
    /\ Cardinality(Born) = 2 /\ worker[1].state \in {"exited", "cancelled"}
    /\ dequeued = <<1, 2>>
    /\ Abandoned(1)
    /\ worker[2].state = "busy" /\ worker[2].session = 2
    /\ HasRows(2)

====
